---- MODULE Spec2Model ----
(***************************************************************************)
(* Sky Fruit Catcher: the GameEngine session state machine and the         *)
(* AIEngine decision policy, as state machines over the engine's fields    *)
(* and over the browser callbacks that are pending for it (the 1 Hz        *)
(* interval, the animation-frame loop, the gun-duration timeout, the       *)
(* bullet-hit timeouts of the auto gun, the deferred boss start and the    *)
(* AI decision interval).                                                  *)
(*                                                                         *)
(* Units.  item.y and item.speed are pixels; the random jitter added to    *)
(* the speed is drawn from a set of whole pixels.  bossEntity.x is kept in *)
(* half percent (the boss moves 0.5 per frame), so the source's 50, 10,    *)
(* 90, 33 and 66 appear as 100, 20, 180, 66 and 132.  Math.random() rolls  *)
(* are whole percents 0..99; errorRate is a percentage.                    *)
(*                                                                         *)
(* Date.now() is an input: whether "now - lastSpawnTime > spawnRate" holds *)
(* in a frame is drawn together with the other random inputs of the frame. *)
(* DOM updates (sprites, popups, feedback fades) are not state.            *)
(***************************************************************************)
EXTENDS Integers, Sequences, FiniteSets, TLC

VARIABLES
    \* GameEngine fields
    isGameActive, isInputEnabled, level, score, timeLimit, playerPos,
    missedCount, maxMisses, bombsSpawnedInLevel, baseSpeed, spawnRate,
    isBossActive, bossHP, bossEntity, gunActive, hasGun, gunTimer,
    devGunMode, isInvincible, items, itemIdCounter,
    handleInput,        \* the keydown listener is registered
    gameTimer,          \* the 1 Hz interval is registered
    \* callbacks pending in the browser
    gunTimeouts,        \* ids of the pending gun-duration timeouts
    nextTimerId,        \* the id the next setTimeout of the gun returns
    bullets,            \* item ids of the pending bullet-hit timeouts
    bossStartTimers,    \* number of pending deferred startBossFight calls
    \* AIEngine
    difficulty,         \* difficulty of the AIEngine driving the session, or NoAI
    \* observation
    frames,             \* animation frames run so far, where a frame budget is set
    sessions,           \* start() calls so far
    ticks,              \* runs of the 1 Hz callback since the last start()
    startConfig,        \* the config of the last start()
    gameEnds,           \* onGameEnd invocations since the last start()
    gunActivations,     \* activateGun calls that switched the gun on since the last start()
    log,                \* item resolutions made by the last step, in order
    resolved,           \* ids of the items counted so far (caught, shot or missed)
    resolvedTwice       \* ids of the items counted more than once

vars == <<isGameActive, isInputEnabled, level, score, timeLimit, playerPos,
          missedCount, maxMisses, bombsSpawnedInLevel, baseSpeed, spawnRate,
          isBossActive, bossHP, bossEntity, gunActive, hasGun, gunTimer,
          devGunMode, isInvincible, items, itemIdCounter, handleInput,
          gameTimer, gunTimeouts, nextTimerId, bullets, bossStartTimers,
          difficulty, frames, sessions, ticks, startConfig, gameEnds, gunActivations,
          log, resolved, resolvedTwice>>

\* ------------------------------------------------------------------------
\* Program constants

Undefined == -1                          \* a numeric field the constructor leaves unset
NoTimer == 0                             \* gunTimer = null (timeout ids start at 1)
NoBoss == [x |-> 0, direction |-> 0]     \* bossEntity = null
NoAI == "none"

PointsPerLevel == 1000
TimeLimitStart == 60
LowerBoundary == 500
SpawnY == -60
BossSpawnY == 60
ItemHeight == 60
PlayerTop == 420
PlayerBottom == 480
HitInset == 10
BossLevel == 15
BossMaxHP == 15
BossSpawnRate == 700
BossBaseSpeed == 11
BossStartX == 100
BossMinX == 20
BossMaxX == 180
BossLeftThird == 66
BossRightThird == 132
LevelCap == 9
StartSpeed == 3
StartSpawnRate == 1500
SpawnRateStep == 100
SpawnRateFloor == 500
GunBombPoints == 200
AIWindowBottom == 420
AIBombScore == -1000
AIRocketScore == 500
AIPanicScore == -500

Lanes == {0, 1, 2}
Rewards == {"none", "life", "gun"}
Fruits == {"apple", "banana", "dragon"}

\* ------------------------------------------------------------------------
\* The engine as a record, so that the methods are operators on it

Cur == [isGameActive |-> isGameActive, isInputEnabled |-> isInputEnabled,
        level |-> level, score |-> score, timeLimit |-> timeLimit,
        playerPos |-> playerPos, missedCount |-> missedCount,
        maxMisses |-> maxMisses, bombsSpawnedInLevel |-> bombsSpawnedInLevel,
        baseSpeed |-> baseSpeed, spawnRate |-> spawnRate,
        isBossActive |-> isBossActive, bossHP |-> bossHP,
        bossEntity |-> bossEntity, gunActive |-> gunActive, hasGun |-> hasGun,
        gunTimer |-> gunTimer, devGunMode |-> devGunMode,
        isInvincible |-> isInvincible, items |-> items,
        itemIdCounter |-> itemIdCounter, handleInput |-> handleInput,
        gameTimer |-> gameTimer, gunTimeouts |-> gunTimeouts,
        nextTimerId |-> nextTimerId, bullets |-> bullets,
        bossStartTimers |-> bossStartTimers, difficulty |-> difficulty,
        frames |-> frames, sessions |-> sessions, ticks |-> ticks,
        startConfig |-> startConfig,
        gameEnds |-> gameEnds,
        gunActivations |-> gunActivations, log |-> <<>>]

\* the entries of a step's log that count an item: a catch or a hit on the
\* player, the hit of a bullet, a miss
Counted(l) == {k \in 1..Len(l) : l[k].via \in {"player", "bullet", "miss"}}

Commit(s) ==
    /\ isGameActive' = s.isGameActive
    /\ isInputEnabled' = s.isInputEnabled
    /\ level' = s.level
    /\ score' = s.score
    /\ timeLimit' = s.timeLimit
    /\ playerPos' = s.playerPos
    /\ missedCount' = s.missedCount
    /\ maxMisses' = s.maxMisses
    /\ bombsSpawnedInLevel' = s.bombsSpawnedInLevel
    /\ baseSpeed' = s.baseSpeed
    /\ spawnRate' = s.spawnRate
    /\ isBossActive' = s.isBossActive
    /\ bossHP' = s.bossHP
    /\ bossEntity' = s.bossEntity
    /\ gunActive' = s.gunActive
    /\ hasGun' = s.hasGun
    /\ gunTimer' = s.gunTimer
    /\ devGunMode' = s.devGunMode
    /\ isInvincible' = s.isInvincible
    /\ items' = s.items
    /\ itemIdCounter' = s.itemIdCounter
    /\ handleInput' = s.handleInput
    /\ gameTimer' = s.gameTimer
    /\ gunTimeouts' = s.gunTimeouts
    /\ nextTimerId' = s.nextTimerId
    /\ bullets' = s.bullets
    /\ bossStartTimers' = s.bossStartTimers
    /\ difficulty' = s.difficulty
    /\ frames' = s.frames
    /\ sessions' = s.sessions
    /\ ticks' = s.ticks
    /\ startConfig' = s.startConfig
    /\ gameEnds' = s.gameEnds
    /\ gunActivations' = s.gunActivations
    /\ log' = s.log
    /\ resolved' = resolved \cup {s.log[k].id : k \in Counted(s.log)}
    /\ resolvedTwice' = resolvedTwice \cup
          {s.log[k].id : k \in {i \in Counted(s.log) :
                                    \/ s.log[i].id \in resolved
                                    \/ \E j \in Counted(s.log) : j < i /\ s.log[j].id = s.log[i].id}}

RemoveAt(seq, i) == SubSeq(seq, 1, i - 1) \o SubSeq(seq, i + 1, Len(seq))

Max(a, b) == IF a >= b THEN a ELSE b
Min(a, b) == IF a <= b THEN a ELSE b

\* ------------------------------------------------------------------------
\* GameEngine methods

\* mutant of stop: the guard on isGameActive is dropped
stopUnguarded(s, reason, isVictory) ==
    [s EXCEPT !.isGameActive = FALSE,
              !.gameTimer = FALSE,
              !.handleInput = FALSE,
              !.gameEnds = Append(@, [reason |-> reason, isVictory |-> isVictory])]

\* stop(reason, isVictory): clears the 1 Hz interval and the keydown listener and
\* reports the end; the gun, bullet and boss-start timeouts are left pending
stop(s, reason, isVictory) ==
    IF ~s.isGameActive THEN s
    ELSE [s EXCEPT !.isGameActive = FALSE,
                   !.gameTimer = FALSE,
                   !.handleInput = FALSE,
                   !.gameEnds = Append(@, [reason |-> reason, isVictory |-> isVictory])]

\* victory(): as stop, without the guard on isGameActive
victory(s) ==
    [s EXCEPT !.isGameActive = FALSE,
              !.gameTimer = FALSE,
              !.handleInput = FALSE,
              !.gameEnds = Append(@, [reason |-> "", isVictory |-> TRUE])]

startBossFight(s) ==
    IF s.isBossActive THEN s
    ELSE [s EXCEPT !.isBossActive = TRUE,
                   !.spawnRate = BossSpawnRate,
                   !.baseSpeed = BossBaseSpeed,
                   !.bossEntity = [x |-> BossStartX, direction |-> 1]]

\* mutant of damageBoss: a rocket takes two hit points
damageBossByTwo(s) ==
    IF ~s.isBossActive THEN s
    ELSE LET t == [s EXCEPT !.bossHP = @ - 2]
         IN  IF t.bossHP <= 0 THEN victory(t) ELSE t

\* mutant of damageBoss: the victory is declared one hit early
damageBossWinsEarly(s) ==
    IF ~s.isBossActive THEN s
    ELSE LET t == [s EXCEPT !.bossHP = @ - 1]
         IN  IF t.bossHP <= 1 THEN victory(t) ELSE t

damageBoss(s) ==
    IF ~s.isBossActive THEN s
    ELSE LET t == [s EXCEPT !.bossHP = @ - 1]
         IN  IF t.bossHP <= 0 THEN victory(t) ELSE t

\* mutant of levelOf: the "+ 1" is dropped
levelOfWithoutOne(sc) == sc \div PointsPerLevel

\* Math.floor(score / 1000) + 1
levelOf(sc) == (sc \div PointsPerLevel) + 1

addScore(s, points) ==
    LET s1 == [s EXCEPT !.score = @ + points]
        newLevel == levelOf(s1.score)
    IN  IF newLevel > s1.level
        THEN LET s2 == [s1 EXCEPT !.level = newLevel,
                                  !.bombsSpawnedInLevel = 0,
                                  !.baseSpeed = IF newLevel <= LevelCap THEN @ + 1 ELSE @,
                                  !.timeLimit = TimeLimitStart]
             IN  IF s2.level >= BossLevel /\ ~s2.isBossActive
                 THEN startBossFight(s2)
                 ELSE IF ~s2.isBossActive
                      THEN IF s2.level <= LevelCap /\ s2.spawnRate > SpawnRateFloor
                           THEN [s2 EXCEPT !.spawnRate = @ - SpawnRateStep]
                           ELSE s2
                      ELSE s2
        ELSE s1

\* activateGun(): switches the gun on and (re)arms the 10 s timeout
activateGun(s) ==
    [s EXCEPT !.gunActive = TRUE,
              !.gunActivations = IF s.gunActive THEN @ ELSE @ + 1,
              !.gunTimeouts = (IF s.gunTimer # NoTimer THEN @ \ {s.gunTimer} ELSE @)
                                 \cup {s.nextTimerId},
              !.gunTimer = s.nextTimerId,
              !.nextTimerId = @ + 1]

\* mutant of bombIsFatal: invincibility is not consulted
bombIsFatalDespiteShield(s, item) == item.type = "bomb" /\ ~s.gunActive

\* the branch of handleCollision taken for a bomb that ends the session
bombIsFatal(s, item) == item.type = "bomb" /\ ~s.gunActive /\ ~s.isInvincible

\* handleCollision(item, index); via names the caller for the log
handleCollision(s, item, index, via) ==
    LET s0 == [s EXCEPT !.items = RemoveAt(@, index)]
        s1 == IF item.type = "rocket" THEN damageBoss(s0)
              ELSE IF bombIsFatal(s0, item) THEN stop(s0, "BOMB! Game Over", FALSE)
              ELSE IF item.type = "bomb" /\ s0.isInvincible THEN s0
              ELSE addScore(s0, IF item.type = "bomb" /\ s0.gunActive
                                THEN GunBombPoints ELSE item.score)
    IN  [s1 EXCEPT !.log = Append(@, [via |-> via, id |-> item.id, type |-> item.type,
                                      y |-> item.y, targeted |-> item.isTargeted,
                                      points |-> s1.score - s.score,
                                      wasActive |-> s.isGameActive,
                                      isActive |-> s1.isGameActive,
                                      ends |-> Len(s1.gameEnds) - Len(s.gameEnds)])]

\* fireBullet(item, index): claims the item once and arms its bullet-hit timeout
fireBullet(s, item, index) ==
    IF item.isTargeted THEN s
    ELSE [s EXCEPT !.items[index].isTargeted = TRUE,
                   !.bullets = @ \cup {item.id}]

\* mutant of missLimitReached: ">" for ">="
missLimitExceeded(s) == s.missedCount > s.maxMisses

\* the test that ends the session after a miss
missLimitReached(s) == s.missedCount >= s.maxMisses

\* mutant of countsAsMiss: a bomb past the lower boundary counts too
countsBombAsMiss(s, item) == item.type # "rocket" /\ ~s.isInvincible

\* an item past the lower boundary counts as a miss
countsAsMiss(s, item) == item.type # "bomb" /\ item.type # "rocket" /\ ~s.isInvincible

\* the log entry of an item that crossed the lower boundary: via is "miss"
\* where it was counted, "gone" where it was only removed
crossEntry(via, before, after, item) ==
    [via |-> via, id |-> item.id, type |-> item.type, y |-> item.y,
     targeted |-> item.isTargeted, points |-> 0, wasActive |-> before.isGameActive, isActive |-> after.isGameActive,
     ends |-> Len(after.gameEnds) - Len(before.gameEnds)]

\* mutant of advance: the item rises
retreat(item) == [item EXCEPT !.y = @ - item.speed]

\* item.y += item.speed
advance(item) == [item EXCEPT !.y = @ + item.speed]

RECURSIVE updateItemsFrom(_, _)
\* the body of updateItems' loop from index i down to 1
updateItemsFrom(s, i) ==
    IF i < 1 THEN s
    ELSE LET item == s.items[i]
         IN  IF s.gunActive /\ item.y > 0
             THEN updateItemsFrom(fireBullet(s, item, i), i - 1)
             ELSE LET moved == advance(item)
                      s1 == [s EXCEPT !.items[i] = moved]
                  IN  IF moved.y > LowerBoundary
                      THEN IF countsAsMiss(s1, moved)
                           THEN LET s2 == [s1 EXCEPT !.missedCount = @ + 1]
                                    s3 == IF missLimitReached(s2)
                                          THEN stop(s2, "Game Over!", FALSE) ELSE s2
                                    s4 == [s3 EXCEPT !.log = Append(@, crossEntry("miss", s1, s3, moved))]
                                IN  IF missLimitReached(s2)
                                    THEN s4
                                    ELSE updateItemsFrom(
                                             [s4 EXCEPT !.items = RemoveAt(@, i)], i - 1)
                           ELSE updateItemsFrom(
                                    [s1 EXCEPT !.items = RemoveAt(@, i),
                                               !.log = Append(@, crossEntry("gone", s1, s1, moved))],
                                    i - 1)
                      ELSE updateItemsFrom(s1, i - 1)

updateItems(s) == updateItemsFrom(s, Len(s.items))

\* the overlap test of checkCollisions
overlapsPlayer(s, item) ==
    /\ item.lane = s.playerPos
    /\ item.y + ItemHeight > PlayerTop + HitInset
    /\ item.y < PlayerBottom - HitInset

RECURSIVE checkCollisionsFrom(_, _)
checkCollisionsFrom(s, i) ==
    IF i < 1 THEN s
    ELSE LET item == s.items[i]
         IN  IF overlapsPlayer(s, item)
             THEN checkCollisionsFrom(handleCollision(s, item, i, "player"), i - 1)
             ELSE checkCollisionsFrom(s, i - 1)

checkCollisions(s) == checkCollisionsFrom(s, Len(s.items))

updateBossMovement(s) ==
    LET x1 == s.bossEntity.x + s.bossEntity.direction
    IN  [s EXCEPT !.bossEntity =
            [x |-> x1,
             direction |-> IF x1 > BossMaxX \/ x1 < BossMinX
                           THEN -s.bossEntity.direction ELSE s.bossEntity.direction]]

\* mutant of spawnLane: the lane is drawn at random under the boss too
spawnLaneAtRandom(s, laneRoll) == laneRoll

\* the lane of a spawned item: under the boss, else Math.floor(Math.random() * 3)
spawnLane(s, laneRoll) ==
    IF s.isBossActive /\ s.bossEntity # NoBoss
    THEN IF s.bossEntity.x < BossLeftThird THEN 0
         ELSE IF s.bossEntity.x < BossRightThird THEN 1 ELSE 2
    ELSE laneRoll

\* the type drawn by typeRoll (and f, for a boss-mode fruit), before the bomb cap
spawnType(s, typeRoll, f) ==
    IF s.isBossActive
    THEN IF typeRoll < 30 THEN "rocket"
         ELSE IF typeRoll < 60 THEN "bomb"
         ELSE IF f < 50 THEN "apple"
         ELSE IF f < 80 THEN "banana" ELSE "dragon"
    ELSE IF typeRoll < 50 THEN "apple"
         ELSE IF typeRoll < 80 THEN "banana"
         ELSE IF typeRoll < 90 THEN "dragon" ELSE "bomb"

scoreOf(type) ==
    CASE type = "apple" -> 100
      [] type = "banana" -> 200
      [] type = "dragon" -> 300
      [] OTHER -> 0

BombCap == 5

\* mutant of bombIsCapped: the cap is tested with ">"
bombIsCappedLate(s, drawn) == drawn = "bomb" /\ s.bombsSpawnedInLevel > BombCap

\* the bomb cap of spawnItem
bombIsCapped(s, drawn) == drawn = "bomb" /\ s.bombsSpawnedInLevel >= BombCap

spawnItem(s, roll) ==
    LET lane == spawnLane(s, roll.lane)
        drawn == spawnType(s, roll.type, roll.f)
        capped == bombIsCapped(s, drawn)
        type == IF capped THEN "apple" ELSE drawn
    IN  [s EXCEPT !.bombsSpawnedInLevel = IF drawn = "bomb" /\ ~capped THEN @ + 1 ELSE @,
                  !.items = Append(@, [id |-> s.itemIdCounter, type |-> type, lane |-> lane,
                                       y |-> IF s.isBossActive THEN BossSpawnY ELSE SpawnY,
                                       speed |-> s.baseSpeed + roll.jitter,
                                       score |-> scoreOf(type), isTargeted |-> FALSE]),
                  !.itemIdCounter = @ + 1]

\* loop(): one animation frame; roll.due says whether a spawn is due at Date.now()
loop(s, roll) ==
    IF ~s.isGameActive THEN s
    ELSE LET s1 == IF s.isBossActive /\ s.bossEntity # NoBoss
                   THEN updateBossMovement(s) ELSE s
             s2 == IF roll.due THEN spawnItem(s1, roll) ELSE s1
         IN  checkCollisions(updateItems(s2))

NoSpawn == [due |-> FALSE, lane |-> 0, type |-> 0, f |-> 0, jitter |-> 0]

\* start()'s defaults: config = {}
DefaultConfig == [startLevel |-> 1, reward |-> "none", isInputEnabled |-> TRUE]

\* mutant of maxMissesFor: the life reward grants no extra miss
maxMissesAlwaysTwo(reward) == 2

\* the reward logic of start(): maxMisses
maxMissesFor(reward) == IF reward = "life" THEN 3 ELSE 2

\* mutant of start: speed and spawn rate follow the start level without the cap at 9
startUncapped(s, config) ==
    LET lv == config.startLevel
        levelCap == lv
        s1 == [s EXCEPT !.isGameActive = TRUE,
                        !.isInputEnabled = config.isInputEnabled,
                        !.level = lv,
                        !.score = (lv - 1) * PointsPerLevel,
                        !.timeLimit = TimeLimitStart,
                        !.playerPos = 1,
                        !.missedCount = 0,
                        !.bombsSpawnedInLevel = 0,
                        !.baseSpeed = StartSpeed + (levelCap - 1),
                        !.spawnRate = StartSpawnRate - ((levelCap - 1) * SpawnRateStep),
                        !.isBossActive = FALSE,
                        !.bossHP = BossMaxHP,
                        !.bossEntity = NoBoss,
                        !.maxMisses = maxMissesFor(config.reward),
                        !.gunActive = FALSE,
                        !.hasGun = (config.reward = "gun"),
                        !.gunTimer = NoTimer,
                        !.bossStartTimers = IF lv >= BossLevel THEN @ + 1 ELSE @,
                        !.handleInput = TRUE,
                        !.gameTimer = TRUE,
                        !.sessions = @ + 1,
                        !.ticks = 0,
                        !.startConfig = config,
                        !.gameEnds = <<>>,
                        !.gunActivations = 0]
    IN  loop(s1, NoSpawn)

\* start(config), up to and including its first, synchronous call of loop()
start(s, config) ==
    LET lv == config.startLevel
        levelCap == Min(lv, LevelCap)
        s1 == [s EXCEPT !.isGameActive = TRUE,
                        !.isInputEnabled = config.isInputEnabled,
                        !.level = lv,
                        !.score = (lv - 1) * PointsPerLevel,
                        !.timeLimit = TimeLimitStart,
                        !.playerPos = 1,
                        !.missedCount = 0,
                        !.bombsSpawnedInLevel = 0,
                        !.baseSpeed = StartSpeed + (levelCap - 1),
                        !.spawnRate = StartSpawnRate - ((levelCap - 1) * SpawnRateStep),
                        !.isBossActive = FALSE,
                        !.bossHP = BossMaxHP,
                        !.bossEntity = NoBoss,
                        !.maxMisses = maxMissesFor(config.reward),
                        !.gunActive = FALSE,
                        !.hasGun = (config.reward = "gun"),
                        !.gunTimer = NoTimer,
                        !.bossStartTimers = IF lv >= BossLevel THEN @ + 1 ELSE @,
                        !.handleInput = TRUE,
                        !.gameTimer = TRUE,
                        !.sessions = @ + 1,
                        !.ticks = 0,
                        !.startConfig = config,
                        !.gameEnds = <<>>,
                        !.gunActivations = 0]
    IN  loop(s1, NoSpawn)

\* start(config) as any caller may invoke it: "if (this.isGameActive) return;"
startCall(s, config) == IF s.isGameActive THEN s ELSE start(s, config)

\* mutant of timerTick: the countdown loses two seconds per tick
timerTickByTwo(s) ==
    LET s0 == [s EXCEPT !.ticks = @ + 1]
        s1 == IF ~s0.isBossActive
              THEN [s0 EXCEPT !.timeLimit = Max(0, @ - 2)] ELSE s0
    IN  IF ~s1.isBossActive /\ s1.timeLimit <= 0
        THEN stop(s1, "Time Over!", FALSE) ELSE s1

\* mutant of timerTick: the countdown also runs in the boss phase
timerTickUnfrozen(s) ==
    LET s1 == [s EXCEPT !.ticks = @ + 1, !.timeLimit = Max(0, @ - 1)]
    IN  IF s1.timeLimit <= 0 THEN stop(s1, "Time Over!", FALSE) ELSE s1

\* mutant of timerTick: the countdown stops at 0 without ending the session
timerTickWithoutEnd(s) ==
    LET s0 == [s EXCEPT !.ticks = @ + 1]
    IN  IF ~s0.isBossActive
        THEN [s0 EXCEPT !.timeLimit = Max(0, @ - 1)] ELSE s0

\* the callback of startTimer's setInterval
timerTick(s) ==
    LET s0 == [s EXCEPT !.ticks = @ + 1]
        s1 == IF ~s0.isBossActive
              THEN [s0 EXCEPT !.timeLimit = Max(0, @ - 1)] ELSE s0
    IN  IF ~s1.isBossActive /\ s1.timeLimit <= 0
        THEN stop(s1, "Time Over!", FALSE) ELSE s1

\* mutant of keyTarget: the key d leads past the right lane
keyTargetPastRight(s, key) ==
    CASE key = "a" -> 0
      [] key = "s" -> 1
      [] key = "d" -> 3
      [] OTHER -> s.playerPos

\* the keydown listener installed by start()
keyTarget(s, key) ==
    CASE key = "a" -> 0
      [] key = "s" -> 1
      [] key = "d" -> 2
      [] OTHER -> s.playerPos

onKeyDown(s, key) ==
    IF ~s.isGameActive \/ ~s.isInputEnabled THEN s
    ELSE LET canUseGun == (s.hasGun \/ s.devGunMode) /\ ~s.gunActive
             s1 == IF key = "w" /\ canUseGun
                   THEN LET g == activateGun(s)
                        IN  IF ~g.devGunMode THEN [g EXCEPT !.hasGun = FALSE] ELSE g
                   ELSE s
         IN  [s1 EXCEPT !.playerPos = keyTarget(s1, key)]

onPoseDetected(s, poseLabel) ==
    IF ~s.isGameActive THEN s
    ELSE [s EXCEPT !.playerPos = CASE poseLabel = "Left" -> 0
                                   [] poseLabel = "Center" -> 1
                                   [] poseLabel = "Right" -> 2
                                   [] OTHER -> @]

\* the callback of activateGun's setTimeout
gunTimeout(s, id) ==
    [s EXCEPT !.gunTimeouts = @ \ {id},
              !.gunActive = FALSE,
              !.gunTimer = NoTimer]

IndexOfId(its, id) ==
    IF \E i \in 1..Len(its) : its[i].id = id
    THEN CHOOSE i \in 1..Len(its) : its[i].id = id /\ \A j \in 1..(i - 1) : its[j].id # id
    ELSE 0

\* the callback of fireBullet's setTimeout
bulletHit(s, id) ==
    LET s1 == [s EXCEPT !.bullets = @ \ {id}]
        currentIdx == IndexOfId(s1.items, id)
    IN  IF currentIdx # 0
        THEN handleCollision(s1, s1.items[currentIdx], currentIdx, "bullet")
        ELSE s1

\* the callback of start()'s setTimeout(() => this.startBossFight(), 100)
bossStartTimeout(s) ==
    startBossFight([s EXCEPT !.bossStartTimers = @ - 1])

\* ------------------------------------------------------------------------
\* AIEngine

\* mutant of minSurvivorLevel: hell is protected only as long as hard
minSurvivorLevelHellAsHard(d) ==
    CASE d = "easy" -> 2
      [] d = "medium" -> 5
      [] d = "hard" -> 8
      [] d = "hell" -> 8
      [] OTHER -> 1

minSurvivorLevel(d) ==
    CASE d = "easy" -> 2
      [] d = "medium" -> 5
      [] d = "hard" -> 8
      [] d = "hell" -> 12
      [] OTHER -> 1

errorRate(d) ==
    CASE d = "easy" -> 30
      [] d = "medium" -> 10
      [] OTHER -> 0

moveTo(s, lane) == [s EXCEPT !.playerPos = lane]

\* the items decideMove looks at: item.y < 420 && item.y > 0
inWindow(item) == item.y < AIWindowBottom /\ item.y > 0

visibleItems(s) == {i \in 1..Len(s.items) : inWindow(s.items[i])}

\* items.find(it => it.lane === lane) on the items sorted by y, largest first
\* (the sort is stable: among equal y the earlier array element comes first);
\* 0 when the lane holds no visible item
itemInLane(s, lane) ==
    LET c == {i \in visibleItems(s) : s.items[i].lane = lane}
    IN  IF c = {} THEN 0
        ELSE CHOOSE i \in c : \A j \in c :
                 \/ s.items[j].y < s.items[i].y
                 \/ (s.items[j].y = s.items[i].y /\ j >= i)

laneScore(s, lane) ==
    LET i == itemInLane(s, lane)
    IN  IF i = 0 THEN 0
        ELSE IF s.items[i].type = "bomb" THEN AIBombScore
        ELSE IF s.items[i].type = "rocket" THEN AIRocketScore
        ELSE s.items[i].score

\* mutant of bestOption: among equal scores the last lane wins
bestOptionLastMax(s) ==
    LET l == CHOOSE a \in Lanes : \A b \in Lanes :
                 \/ laneScore(s, b) < laneScore(s, a)
                 \/ (laneScore(s, b) = laneScore(s, a) /\ b <= a)
    IN  [lane |-> l, score |-> laneScore(s, l)]

\* laneScores.sort((a, b) => b.score - a.score)[0]: the first maximum in lane order
bestOption(s) ==
    LET l == CHOOSE a \in Lanes : \A b \in Lanes :
                 \/ laneScore(s, b) < laneScore(s, a)
                 \/ (laneScore(s, b) = laneScore(s, a) /\ b >= a)
    IN  [lane |-> l, score |-> laneScore(s, l)]

\* mutant of aiFiresGun: the gun is used on every difficulty
aiFiresGunOnAnyDifficulty(s, d) ==
    /\ \E i \in visibleItems(s) : s.items[i].type = "bomb"
    /\ (s.hasGun \/ s.devGunMode)

\* the gun branch of decideMove
aiFiresGun(s, d) ==
    /\ d \in {"hell", "hard"}
    /\ \E i \in visibleItems(s) : s.items[i].type = "bomb"
    /\ (s.hasGun \/ s.devGunMode)

\* decideMove(); errRoll and randLane are its two Math.random() draws
decideMove(s, errRoll, randLane) ==
    IF ~s.isGameActive THEN s
    ELSE LET d == s.difficulty
             s1 == [s EXCEPT !.isInvincible = (s.level < minSurvivorLevel(d))]
         IN  IF visibleItems(s1) = {}
             THEN IF d = "hell" THEN moveTo(s1, 1) ELSE s1
             ELSE LET best == bestOption(s1)
                      shouldUseError == ~s1.isInvincible /\ errRoll < errorRate(d)
                      targetLane == IF shouldUseError THEN randLane
                                    ELSE IF best.score < AIPanicScore THEN s1.playerPos
                                    ELSE best.lane
                      s2 == IF aiFiresGun(s1, d) THEN activateGun(s1) ELSE s1
                  IN  moveTo(s2, targetLane)

\* ------------------------------------------------------------------------
\* Initial state: a constructed GameEngine, with or without an AIEngine on it

InitWith(difficulties) ==
    /\ isGameActive = FALSE
    /\ isInputEnabled = TRUE
    /\ level = 1
    /\ score = 0
    /\ timeLimit = TimeLimitStart
    /\ playerPos = 1
    /\ missedCount = Undefined
    /\ maxMisses = Undefined
    /\ bombsSpawnedInLevel = Undefined
    /\ baseSpeed = StartSpeed
    /\ spawnRate = StartSpawnRate
    /\ isBossActive = FALSE
    /\ bossHP = Undefined
    /\ bossEntity = NoBoss
    /\ gunActive = FALSE
    /\ hasGun = FALSE
    /\ gunTimer = NoTimer
    /\ devGunMode = FALSE
    /\ isInvincible = FALSE
    /\ items = <<>>
    /\ itemIdCounter = 0
    /\ handleInput = FALSE
    /\ gameTimer = FALSE
    /\ gunTimeouts = {}
    /\ nextTimerId = 1
    /\ bullets = {}
    /\ bossStartTimers = 0
    /\ difficulty \in difficulties
    /\ frames = 0
    /\ sessions = 0
    /\ ticks = 0
    /\ startConfig = DefaultConfig
    /\ gameEnds = <<>>
    /\ gunActivations = 0
    /\ log = <<>>
    /\ resolved = {}
    /\ resolvedTwice = {}

\* ------------------------------------------------------------------------
\* Steps.  Each takes the inputs it may draw and the caps on the unbounded
\* counters (item ids, timeout ids, pending boss starts, frames, countdown ticks).

Start(configs, maxSessions) ==
    /\ ~isGameActive
    /\ sessions < maxSessions
    /\ \E config \in configs : Commit(start(Cur, config))

\* the owner's stop button: gameEngine.stop()
Stop ==
    /\ isGameActive
    /\ Commit(stop(Cur, "Time's Up!", FALSE))

NoFrameBudget == 0

\* one animation frame of an active session; a spawn is drawn only while fewer
\* than maxLive items are in flight; maxFrames = NoFrameBudget sets none
Frame(rolls, maxSpawn, maxLive, maxFrames) ==
    /\ isGameActive
    /\ (maxFrames # NoFrameBudget => frames < maxFrames)
    /\ \E roll \in rolls \cup {NoSpawn} :
          /\ (roll.due => (itemIdCounter < maxSpawn /\ Len(items) < maxLive))
          /\ Commit([loop(Cur, roll) EXCEPT !.frames = IF maxFrames # NoFrameBudget THEN @ + 1 ELSE @])

Tick1Hz(maxTicks) ==
    /\ gameTimer
    /\ ticks < maxTicks
    /\ Commit(timerTick(Cur))

KeyDown(keys, maxTimers) ==
    /\ handleInput
    /\ \E key \in keys :
          LET s == onKeyDown(Cur, key)
          IN  /\ s.nextTimerId <= maxTimers + 1
              /\ Commit(s)

Pose(labels) ==
    \E poseLabel \in labels : Commit(onPoseDetected(Cur, poseLabel))

GunTimeout ==
    \E id \in gunTimeouts : Commit(gunTimeout(Cur, id))

BulletHit ==
    \E id \in bullets : Commit(bulletHit(Cur, id))

BossStartTimeout ==
    /\ bossStartTimers > 0
    /\ Commit(bossStartTimeout(Cur))

\* one firing of the AI's interval; the second Math.random() is drawn only where
\* the first can select the random lane
AIDecide(errRolls, maxTimers) ==
    /\ difficulty # NoAI
    /\ \E errRoll \in errRolls :
       \E randLane \in (IF errRoll < errorRate(difficulty) THEN Lanes ELSE {0}) :
          LET s == decideMove(Cur, errRoll, randLane)
          IN  /\ s.nextTimerId <= maxTimers + 1
              /\ Commit(s)

\* start(config) called in any state, active or not
StartCall(configs, maxSessions) ==
    /\ (isGameActive \/ sessions < maxSessions)
    /\ \E config \in configs : Commit(startCall(Cur, config))

\* stop() called in any state, active or not
StopCall ==
    Commit(stop(Cur, "Time's Up!", FALSE))

\* a direct call of the public method addScore(points)
AddScoreCall(pointSet, maxGain) ==
    \E points \in pointSet :
        /\ score + points <= (startConfig.startLevel - 1) * PointsPerLevel + maxGain
        /\ Commit(addScore(Cur, points))

\* ------------------------------------------------------------------------
\* Specification: the auto gun and its timeouts across a stop and a restart

MaxSessions == 2
OneSession == 1
MaxSpawn == 1
MaxFrames == 2
MaxTimers == 2

SpecConfigs == [startLevel : {1, BossLevel}, reward : {"gun"}, isInputEnabled : {TRUE}]
SpecRolls == [due : {TRUE}, lane : {1}, type : {55}, f : {0}, jitter : {0}]

Init == InitWith({NoAI})

Next ==
    \/ Start(SpecConfigs, MaxSessions)
    \/ Stop
    \/ Frame(SpecRolls, MaxSpawn, MaxSpawn, MaxFrames)
    \/ KeyDown({"w"}, MaxTimers)
    \/ GunTimeout
    \/ BulletHit
    \/ BossStartTimeout

Spec == Init /\ [][Next]_vars

\* ------------------------------------------------------------------------
\* Specification SpecAI: a session driven by a hard AIEngine, in the boss phase
\* (items spawn inside the AI's window)

MaxSpawnAI == 1
MaxFramesAI == 2
MaxTimersAI == 2

AIConfigs == [startLevel : {BossLevel}, reward : Rewards, isInputEnabled : BOOLEAN]
AIRolls == [due : {TRUE}, lane : {1}, type : {55}, f : {0}, jitter : {0}]

InitAI == InitWith({"hard"})

NextAI ==
    \/ Start(AIConfigs, OneSession)
    \/ Frame(AIRolls, MaxSpawnAI, MaxSpawnAI, MaxFramesAI)
    \/ KeyDown({"w", "d"}, MaxTimersAI)
    \/ AIDecide({0}, MaxTimersAI)
    \/ GunTimeout
    \/ BulletHit
    \/ BossStartTimeout

SpecAI == InitAI /\ [][NextAI]_vars

\* ------------------------------------------------------------------------
\* Specification SpecBoss: a boss fight fought with the auto gun down to bossHP 0,
\* which the owner may stop at any point

MaxSpawnBoss == 17
MaxLiveBoss == 2
MaxFramesBoss == 17

BossConfigs == [startLevel : {BossLevel}, reward : {"gun"}, isInputEnabled : {TRUE}]
BossRolls == [due : {TRUE}, lane : {1}, type : {0}, f : {0}, jitter : {0}]

NextBoss ==
    \/ Start(BossConfigs, OneSession)
    \/ Stop
    \/ Frame(BossRolls, MaxSpawnBoss, MaxLiveBoss, MaxFramesBoss)
    \/ KeyDown({"w"}, MaxTimers)
    \/ BulletHit
    \/ BossStartTimeout

SpecBoss == InitWith({NoAI}) /\ [][NextBoss]_vars

\* ------------------------------------------------------------------------
\* Specification SpecLevel: scoring across level boundaries, by caught items and
\* by direct addScore calls

MaxGain == 2000
MaxSessionsLevel == 2
MaxSpawnLevel == 1
MaxFramesLevel == 8

LevelConfigs == [startLevel : {1, 9, 14}, reward : {"gun"}, isInputEnabled : {TRUE}]
LevelRolls == [due : {TRUE}, lane : {1}, type : {85}, f : {0}, jitter : {0}]

NextLevel ==
    \/ Start(LevelConfigs, MaxSessionsLevel)
    \/ Stop
    \/ AddScoreCall({300, 1000}, MaxGain)
    \/ Frame(LevelRolls, MaxSpawnLevel, MaxSpawnLevel, MaxFramesLevel)
    \/ KeyDown({"w"}, MaxTimers)
    \/ GunTimeout
    \/ BulletHit

SpecLevel == InitWith({NoAI}) /\ [][NextLevel]_vars

\* ------------------------------------------------------------------------
\* Specification SpecFall: items falling the whole way at level 9, caught,
\* dodged or missed by a player moving between two lanes, with or without a
\* hell AIEngine (whose skill floor, 12, makes a level 9 session invincible)

MaxSpawnFall == 2

FallConfigs == [startLevel : {LevelCap}, reward : {"none", "life"}, isInputEnabled : {TRUE}]
FallRolls == [due : {TRUE}, lane : {1}, type : {0, 95}, f : {0}, jitter : {0}]

NextFall ==
    \/ Start(FallConfigs, OneSession)
    \/ Stop
    \/ Frame(FallRolls, MaxSpawnFall, MaxSpawnFall, NoFrameBudget)
    \/ KeyDown({"a", "s"}, MaxTimers)
    \/ AIDecide({0}, MaxTimers)

SpecFall == InitWith({NoAI, "hell"}) /\ [][NextFall]_vars

\* ------------------------------------------------------------------------
\* Specification SpecBombMiss: as SpecFall for a human player, with a third item,
\* so that a last miss and a bomb hit can fall into one frame

MaxSpawnBombMiss == 3

BombMissConfigs == [startLevel : {LevelCap}, reward : {"none"}, isInputEnabled : {TRUE}]

NextBombMiss ==
    \/ Start(BombMissConfigs, OneSession)
    \/ Frame(FallRolls, MaxSpawnBombMiss, MaxSpawnBombMiss, NoFrameBudget)
    \/ KeyDown({"a", "s"}, MaxTimers)

SpecBombMiss == InitWith({NoAI}) /\ [][NextBombMiss]_vars

\* ------------------------------------------------------------------------
\* C1: within one session onGameEnd is invoked at most once, with a single
\* victory flag, whatever resolutions follow the end.
C1_EndsOnce == Len(gameEnds) <= 1

\* ------------------------------------------------------------------------
\* C2: stop() cancels every pending timer: once the session has stopped, no
\* callback armed earlier changes score, level, items, gunActive, bossHP,
\* isBossActive or missedCount before the next start().
C2_StoppedSessionIsFrozen ==
    [][(~isGameActive /\ ~isGameActive' /\ sessions' = sessions)
         => UNCHANGED <<score, level, items, gunActive, bossHP, isBossActive, missedCount>>]_vars

\* C3: a timeout armed in an earlier session never acts on a later one: a gun
\* that is active goes inactive within a session only when the timeout it armed
\* itself has fired, and the boss phase starts only in a session at the boss level.
C3_GunTimerIsOwnSession ==
    [][/\ (gunActive /\ ~gunActive' /\ sessions' = sessions)
            => gunTimer \notin gunTimeouts'
       /\ (~isBossActive /\ isBossActive' /\ sessions' = sessions)
            => level' >= BossLevel]_vars

\* C4: start() on an inactive session resets all state: right after it, items is
\* empty, score = (startLevel - 1) * 1000 at level startLevel, missedCount = 0, the
\* gun is inactive and the player is in the centre lane.
C4_StartResetsAll ==
    [][(sessions' = sessions + 1)
         => /\ items' = <<>>
            /\ score' = (level' - 1) * PointsPerLevel
            /\ missedCount' = 0
            /\ ~gunActive'
            /\ playerPos' = 1]_vars

\* C7: every bomb resolved by a bullet of the auto gun is destroyed harmlessly:
\* the resolution adds exactly 200 to the score and does not end the session.
C7_GunBombIsHarmless ==
    \A k \in 1..Len(log) :
        (log[k].via = "bullet" /\ log[k].type = "bomb")
            => (log[k].points = GunBombPoints /\ log[k].ends = 0 /\ log[k].isActive = log[k].wasActive)

\* C5: level = floor(score / 1000) + 1 in every state, and the level never
\* decreases within a session.
C5_LevelFollowsScore ==
    /\ level = (score \div 1000) + 1
    /\ [][/\ level' = (score' \div 1000) + 1
          /\ (sessions' = sessions => level' >= level)]_vars

\* C5 witness: a caught item has just taken the score across a level boundary.
C5_Witness_LevelUpByCatch ==
    \E k \in 1..Len(log) :
        /\ log[k].points > 0
        /\ (score \div 1000) > ((score - log[k].points) \div 1000)

\* C6: a bomb that hits the player while the gun is inactive and the session is
\* not invincible ends the session in that frame as a loss whose reason names
\* the bomb, and awards no points.
C6_BombHitEndsAsBombLoss ==
    \A k \in 1..Len(log) :
        (log[k].via = "player" /\ log[k].type = "bomb" /\ ~gunActive /\ ~isInvincible)
            => /\ ~isGameActive
               /\ log[k].points = 0
               /\ Len(gameEnds) >= 1
               /\ gameEnds[1] = [reason |-> "BOMB! Game Over", isVictory |-> FALSE]

\* C8: activating the weapon while the gun is active has no effect: the gun
\* stays on its first timeout, which is not re-armed.
C8_ActivationIsIdempotent ==
    [][(gunActive /\ gunActive' /\ sessions' = sessions)
         => (gunTimer' = gunTimer /\ gunTimeouts' = gunTimeouts)]_vars

\* C9: without the dev override the gun goes active at most once in a session
\* started with the gun reward and never in any other session.
C9_GunNeedsOwnership ==
    ~devGunMode =>
        /\ gunActivations <= 1
        /\ (startConfig.reward # "gun" => (gunActivations = 0 /\ ~gunActive))

\* C10: missedCount <= maxMisses always, and missedCount < maxMisses while the
\* session is active.
C10_MissesWithinLimit ==
    sessions > 0 =>
        /\ missedCount <= maxMisses
        /\ (isGameActive => missedCount < maxMisses)

\* C10 witness: the session has ended on its last allowed miss.
C10_Witness_LastMiss ==
    /\ ~isGameActive
    /\ missedCount = maxMisses
    /\ \E k \in 1..Len(log) : log[k].via = "miss"

\* ------------------------------------------------------------------------
\* Specification SpecMiss: fruit falling the whole way at level 9 past a human
\* player who stands under it or beside it, under each of the three rewards

MaxSpawnMiss == 3
MaxLiveMiss == 2

MissConfigs == [startLevel : {LevelCap}, reward : Rewards, isInputEnabled : {TRUE}]
MissRolls == [due : {TRUE}, lane : {1}, type : {0}, f : {0}, jitter : {0, 1}]

NextMiss ==
    \/ Start(MissConfigs, OneSession)
    \/ Frame(MissRolls, MaxSpawnMiss, MaxLiveMiss, NoFrameBudget)
    \/ KeyDown({"a", "s"}, MaxTimers)

SpecMiss == InitWith({NoAI}) /\ [][NextMiss]_vars

\* the log entries of the last step that are misses
MissEntries == {k \in 1..Len(log) : log[k].via = "miss"}

\* C11: maxMisses is 3 under the life reward and 2 otherwise; a frame with a
\* miss ends the session (as the loss "Game Over!", reported first) exactly when
\* that miss brought missedCount to maxMisses, and it is the frame's last miss
\* that does so.
C11_LossOnLastMissOnly ==
    sessions > 0 =>
        /\ maxMisses = (IF startConfig.reward = "life" THEN 3 ELSE 2)
        /\ \A k \in MissEntries :
              /\ (log[k].ends = 1) <=> (missedCount = maxMisses /\ \A j \in MissEntries : j <= k)
              /\ log[k].ends \in {0, 1}
              /\ (log[k].ends = 1) =>
                    /\ ~isGameActive
                    /\ gameEnds[1] = [reason |-> "Game Over!", isVictory |-> FALSE]

\* C11 witness: the third miss of a session started with the life reward has
\* just ended it.
C11_Witness_ThirdMissEnds ==
    /\ startConfig.reward = "life"
    /\ missedCount = 3
    /\ ~isGameActive
    /\ \E k \in MissEntries : log[k].ends = 1

\* ------------------------------------------------------------------------
\* Specification SpecCross: fruit, bombs and rockets falling the whole way, one
\* at a time, at level 9 (apples and bombs) and at level 15 (rockets and apples
\* once the boss is there) in a session that a hell AIEngine drives whenever its
\* interval fires and the keyboard moves in between

MaxSpawnCross == 2
MaxLiveCross == 1

CrossConfigs == [startLevel : {LevelCap, BossLevel}, reward : {"none"}, isInputEnabled : {TRUE}]
CrossRolls == [due : {TRUE}, lane : {1}, type : {0, 95}, f : {0}, jitter : {0}]

NextCross ==
    \/ Start(CrossConfigs, OneSession)
    \/ Frame(CrossRolls, MaxSpawnCross, MaxLiveCross, NoFrameBudget)
    \/ KeyDown({"a", "s"}, MaxTimers)
    \/ AIDecide({0}, MaxTimers)
    \/ BossStartTimeout

SpecCross == InitWith({"hell"}) /\ [][NextCross]_vars

\* the log entries of the last step that are removals at the lower boundary
\* without a miss
GoneEntries == {k \in 1..Len(log) : log[k].via = "gone"}

\* C12: within a session missedCount grows by exactly one per counted miss and
\* changes in no other way; a counted miss is a fruit past y = 500 in a session
\* that is not invincible; a bomb or a rocket past y = 500 is removed and is
\* never counted.
C12_MissesAreUninvincibleFruit ==
    [][/\ \A k \in 1..Len(log') :
            /\ (log'[k].via = "miss") =>
                  /\ log'[k].type \in Fruits
                  /\ log'[k].y > LowerBoundary
                  /\ ~isInvincible'
            /\ (log'[k].via = "gone") =>
                  /\ log'[k].y > LowerBoundary
                  /\ (log'[k].type \in {"bomb", "rocket"} \/ isInvincible')
                  /\ \A i \in 1..Len(items') : items'[i].id # log'[k].id
       /\ missedCount' = (IF sessions' = sessions THEN missedCount ELSE 0)
                            + Cardinality({k \in 1..Len(log') : log'[k].via = "miss"})]_vars

\* C12 witness: a rocket has just crossed the lower boundary in a session that
\* has a miss on its count.
C12_Witness_RocketGone ==
    /\ missedCount = 1
    /\ \E k \in GoneEntries : log[k].type = "rocket"

\* ------------------------------------------------------------------------
\* Specification SpecShield: a level 9 session with the gun reward under a hell
\* AIEngine, whose skill floor (12) makes the session invincible from the AI's
\* first decision on; apples and bombs fall past, onto or into the gun of a
\* player that the AI and the keyboard both move

MaxSpawnShield == 2
MaxTimersShield == 1

ShieldConfigs == [startLevel : {LevelCap}, reward : {"gun"}, isInputEnabled : {TRUE}]

NextShield ==
    \/ Start(ShieldConfigs, OneSession)
    \/ Frame(FallRolls, MaxSpawnShield, MaxSpawnShield, NoFrameBudget)
    \/ KeyDown({"a", "w"}, MaxTimersShield)
    \/ AIDecide({0}, MaxTimersShield)
    \/ GunTimeout
    \/ BulletHit

SpecShield == InitWith({"hell"}) /\ [][NextShield]_vars

\* C13: in a step taken with isInvincible set, no item that crosses the lower
\* boundary is counted as a miss, missedCount keeps its value, and a bomb that
\* is resolved (on the player or by a bullet) awards 0 points and does not end
\* the session.
C13_InvincibleSuppresses ==
    [][isInvincible' =>
          /\ (sessions' = sessions => missedCount' = missedCount)
          /\ \A k \in 1..Len(log') :
                /\ log'[k].via # "miss"
                /\ (log'[k].type = "bomb" /\ log'[k].via \in {"player", "bullet"}) =>
                      /\ log'[k].points = 0
                      /\ log'[k].ends = 0
                      /\ log'[k].isActive = log'[k].wasActive]_vars

\* C13 witness: in one frame of an invincible, active session an apple went past
\* the lower boundary and a bomb hit the player.
C13_Witness_BlockedAndPassed ==
    /\ isInvincible
    /\ isGameActive
    /\ \E k \in 1..Len(log) : log[k].via = "gone" /\ log[k].type = "apple"
    /\ \E k \in 1..Len(log) : log[k].via = "player" /\ log[k].type = "bomb"

\* ------------------------------------------------------------------------
\* Specification SpecTimer: a level 1 session under a hard AIEngine (skill
\* floor 8) with the 1 Hz countdown running beside the frames and the AI's
\* decisions

MaxTicks == 60
MaxSpawnTimer == 1

TimerConfigs == [startLevel : {1}, reward : {"none"}, isInputEnabled : {FALSE}]
TimerRolls == [due : {TRUE}, lane : Lanes, type : {0}, f : {0}, jitter : {0}]

NextTimer ==
    \/ Start(TimerConfigs, OneSession)
    \/ Frame(TimerRolls, MaxSpawnTimer, MaxSpawnTimer, NoFrameBudget)
    \/ Tick1Hz(MaxTicks)
    \/ AIDecide({0}, MaxTimers)

SpecTimer == InitWith({"hard"}) /\ [][NextTimer]_vars

\* C14: a session that an AIEngine drives never reports a loss while its level
\* is below the AI's minSurvivorLevel (stated here for the sessions in which the
\* AI has decided at least once, so that the shield is up).
C14_NoLossBelowFloor ==
    (difficulty # NoAI /\ level < minSurvivorLevel(difficulty) /\ isInvincible)
        => \A k \in 1..Len(gameEnds) : gameEnds[k].isVictory

\* C15: from the first start() on, 0 <= bossHP <= 15 in every state, and within
\* a session bossHP never increases.
C15_BossHPInRange ==
    [][sessions' > 0 =>
          /\ 0 <= bossHP'
          /\ bossHP' <= BossMaxHP
          /\ (sessions' = sessions => bossHP' <= bossHP)]_vars

MaxSpawnRocket == 2
MaxLiveRocket == 1
MaxFramesRocket == 75
MaxTimersRocket == 1

RocketConfigs == [startLevel : {BossLevel}, reward : {"gun"}, isInputEnabled : {TRUE}]
RocketRolls == [due : {TRUE}, lane : {1}, type : {0, 95}, f : {0}, jitter : {0}]

NextRocket ==
    \/ Start(RocketConfigs, OneSession)
    \/ (bossStartTimers = 0 /\ Frame(RocketRolls, MaxSpawnRocket, MaxLiveRocket, MaxFramesRocket))
    \/ KeyDown({"w"}, MaxTimersRocket)
    \/ GunTimeout
    \/ BulletHit
    \/ BossStartTimeout

SpecRocket == InitWith({NoAI}) /\ [][NextRocket]_vars

\* the log entries of a step that resolved a rocket, on the player or by a bullet
RocketHits(l) == {k \in 1..Len(l) : l[k].type = "rocket" /\ l[k].via \in {"player", "bullet"}}

\* C17: with the boss active, a step lowers bossHP by exactly the number of
\* rockets it resolved (on the player or by a bullet, gun active or not), a
\* resolved rocket adds nothing to the score, and a rocket is never counted as a
\* miss: missedCount grows by the number of fruit missed in the step only.
C17_RocketOnlyDamagesBoss ==
    [][(sessions' = sessions /\ isBossActive) =>
          /\ bossHP - bossHP' = Cardinality(RocketHits(log'))
          /\ \A k \in RocketHits(log') : log'[k].points = 0
          /\ \A k \in 1..Len(log') : log'[k].type = "rocket" => log'[k].via # "miss"
          /\ missedCount' - missedCount =
                Cardinality({k \in 1..Len(log') : log'[k].via = "miss" /\ log'[k].type # "rocket"})]_vars

\* C17 witness: a rocket has just hit the player while the gun was inactive, in
\* a session that had already scored.
C17_Witness_RocketCaught ==
    /\ ~gunActive
    /\ score > (BossLevel - 1) * PointsPerLevel
    /\ bossHP = BossMaxHP - 1
    /\ \E k \in RocketHits(log) : log[k].via = "player"

\* ------------------------------------------------------------------------
\* Specification SpecEntry: entering the boss phase, by addScore(1000) calls
\* from level 1 or 14 and by start() at level 15, across a stop and a restart

MaxGainEntry == 15000
MaxSessionsEntry == 2

EntryConfigs == [startLevel : {1, 14, BossLevel}, reward : {"none"}, isInputEnabled : {TRUE}]

NextEntry ==
    \/ Start(EntryConfigs, MaxSessionsEntry)
    \/ Stop
    \/ AddScoreCall({1000}, MaxGainEntry)
    \/ BossStartTimeout

SpecEntry == InitWith({NoAI}) /\ [][NextEntry]_vars

\* C18: within a session (from the first start() on), the step that takes the
\* level from below 15 to 15 or above enters the boss phase, with bossHP = 15,
\* spawnRate = 700 and baseSpeed = 11; a level-up with the boss already active leaves spawnRate and
\* baseSpeed alone and does not raise bossHP.
C18_BossEntryAtLevel15 ==
    [][(sessions > 0 /\ sessions' = sessions /\ level' > level) =>
          /\ (level < BossLevel /\ level' >= BossLevel) =>
                /\ ~isBossActive /\ isBossActive'
                /\ bossHP' = BossMaxHP
                /\ spawnRate' = BossSpawnRate
                /\ baseSpeed' = BossBaseSpeed
          /\ isBossActive =>
                /\ isBossActive'
                /\ spawnRate' = spawnRate
                /\ baseSpeed' = baseSpeed
                /\ bossHP' <= bossHP]_vars

\* C19: a session started at level 15 or above has the boss active from the
\* moment start() returns: in every state in which the session is active, so
\* that any frame, countdown tick or spawn of the session finds the boss there.
C19_BossActiveFromStart ==
    (sessions > 0 /\ isGameActive /\ startConfig.startLevel >= BossLevel) => isBossActive

\* C20: in every state reached the boss being active implies level >= 15, and
\* within a session a boss that is active stays active.
C20_BossOnlyFromLevel15 ==
    [][/\ isBossActive' => level' >= BossLevel
       /\ (isBossActive /\ sessions' = sessions) => isBossActive']_vars

\* C21: a report of the session's end that is made while the boss is active is
\* a victory or the loss by a bomb hit; no loss by missed items or by time-out
\* is reported in the boss phase.
C21_BossPhaseLossIsBomb ==
    [][(isBossActive /\ sessions' = sessions) =>
          \A k \in (Len(gameEnds) + 1)..Len(gameEnds') :
              \/ gameEnds'[k].isVictory
              \/ gameEnds'[k].reason = "BOMB! Game Over"]_vars

\* ------------------------------------------------------------------------
\* Specification SpecClock: the 1 Hz countdown before and in the boss phase, at
\* levels 13 to 15, with level-ups by addScore(1000) in between

MaxTicksClock == 62
MaxGainClock == 2000

ClockConfigs == [startLevel : {13, 14, BossLevel}, reward : {"none"}, isInputEnabled : {TRUE}]

NextClock ==
    \/ Start(ClockConfigs, OneSession)
    \/ Tick1Hz(MaxTicksClock)
    \/ AddScoreCall({1000}, MaxGainClock)
    \/ BossStartTimeout

SpecClock == InitWith({NoAI}) /\ [][NextClock]_vars

\* C22: with the boss active, a run of the 1 Hz callback changes neither
\* timeLimit nor the session's activity, and no end with the time-over reason
\* is reported (a level-up in the boss phase still sets timeLimit back to 60,
\* which is addScore's doing and no tick).
C22_CountdownFrozenInBossPhase ==
    [][(isBossActive /\ sessions' = sessions) =>
          /\ (ticks' # ticks) =>
                (timeLimit' = timeLimit /\ isGameActive' = isGameActive /\ gameEnds' = gameEnds)
          /\ \A k \in (Len(gameEnds) + 1)..Len(gameEnds') : gameEnds'[k].reason # "Time Over!"]_vars

\* C22 witness: in a session started at level 15 that has not scored, more
\* ticks have run than timeLimit has lost: some ran in the boss phase.
C22_Witness_TickInBossPhase ==
    /\ isBossActive
    /\ isGameActive
    /\ startConfig.startLevel = BossLevel
    /\ score = (BossLevel - 1) * PointsPerLevel
    /\ timeLimit < TimeLimitStart
    /\ ticks > TimeLimitStart - timeLimit

\* C23: timeLimit is never negative; a run of the 1 Hz callback with the boss
\* inactive finds the session active and takes exactly 1 off timeLimit; the run
\* that takes it to 0 ends the session with the reason "Time Over!" and
\* isVictory = false, and no other run ends it.
C23_CountdownTicksToTimeOver ==
    [][/\ timeLimit' >= 0
       /\ (ticks' # ticks /\ sessions' = sessions /\ ~isBossActive) =>
             /\ isGameActive
             /\ timeLimit' = timeLimit - 1
             /\ (timeLimit' = 0) =>
                   /\ ~isGameActive'
                   /\ gameEnds' = Append(gameEnds, [reason |-> "Time Over!", isVictory |-> FALSE])
             /\ (timeLimit' > 0) => (isGameActive' /\ gameEnds' = gameEnds)]_vars

\* C23 witness: the countdown has run out after a level-up had set it back.
C23_Witness_TimeOver ==
    /\ ~isGameActive
    /\ timeLimit = 0
    /\ ticks > TimeLimitStart
    /\ gameEnds = <<[reason |-> "Time Over!", isVictory |-> FALSE]>>

\* ------------------------------------------------------------------------
\* Specification SpecRace: level 9 sessions with the gun reward in which an
\* apple can be claimed by the gun, outlive the gun, and fall on while its
\* bullet is in flight; a lost session can be started again

MaxSpawnRace == 2
MaxSessionsRace == 2
MaxTimersRace == 1

RaceConfigs == [startLevel : {LevelCap}, reward : {"gun"}, isInputEnabled : {TRUE}]
RaceRolls == [due : {TRUE}, lane : {1}, type : {0}, f : {0}, jitter : {0}]

NextRace ==
    \/ Start(RaceConfigs, MaxSessionsRace)
    \/ Frame(RaceRolls, MaxSpawnRace, MaxSpawnRace, NoFrameBudget)
    \/ KeyDown({"a", "s", "w"}, MaxTimersRace)
    \/ GunTimeout
    \/ BulletHit

SpecRace == InitWith({NoAI}) /\ [][NextRace]_vars

\* C24: no item is counted twice: of a miss, a collision with the player and the
\* hit of its bullet at most one ever applies to an item id.
C24_ResolvedAtMostOnce == resolvedTwice = {}

\* C25: across a step with the gun active before and after it, an item that was
\* in the visible band (y > 0) has not advanced and no miss has been counted; an
\* animation frame with the gun active leaves every such item claimed; and the
\* bullet of a claimed item resolves it as a catch: the fruit's value for a
\* fruit, 200 for a bomb, without ending the session.
C25_GunClaimsVisibleItems ==
    [][/\ (gunActive /\ gunActive' /\ sessions' = sessions) =>
             /\ missedCount' = missedCount
             /\ \A i \in 1..Len(items) : \A j \in 1..Len(items') :
                   (items[i].y > 0 /\ items'[j].id = items[i].id) =>
                       /\ items'[j].y = items[i].y
                       /\ (frames' # frames => items'[j].isTargeted)
       /\ \A k \in 1..Len(log') :
             (log'[k].via = "bullet" /\ log'[k].type # "rocket") =>
                 /\ log'[k].points = (IF log'[k].type = "bomb" THEN GunBombPoints
                                      ELSE scoreOf(log'[k].type))
                 /\ log'[k].ends = 0]_vars

MaxSpawnBombs == 7
MaxLiveBombs == 1
MaxGainBombs == 1000

BombsConfigs == [startLevel : {LevelCap}, reward : {"none"}, isInputEnabled : {TRUE}]
BombsRolls == [due : {TRUE}, lane : {1}, type : {95}, f : {0}, jitter : {0}]

NextBombs ==
    \/ Start(BombsConfigs, OneSession)
    \/ Frame(BombsRolls, MaxSpawnBombs, MaxLiveBombs, NoFrameBudget)
    \/ KeyDown({"a"}, MaxTimers)
    \/ AddScoreCall({1000}, MaxGainBombs)

SpecBombs == InitWith({NoAI}) /\ [][NextBombs]_vars

\* C27: in a session bombsSpawnedInLevel stays within 0..5; a level-up sets it
\* to 0; without one it grows by one per bomb spawned and not otherwise; and a
\* bomb roll (every roll here) yields a bomb below the cap and the 100-point
\* apple at it.
C27_BombCapPerLevel ==
    [][(sessions > 0 /\ sessions' = sessions) =>
          LET spawned == {j \in 1..Len(items') : items'[j].id >= itemIdCounter}
              bombs == {j \in spawned : items'[j].type = "bomb"}
          IN  /\ bombsSpawnedInLevel' \in 0..BombCap
              /\ (level' > level) => bombsSpawnedInLevel' = 0
              /\ (level' = level) =>
                    bombsSpawnedInLevel' = bombsSpawnedInLevel + Cardinality(bombs)
              /\ \A j \in spawned :
                    IF bombsSpawnedInLevel < BombCap
                    THEN items'[j].type = "bomb" /\ items'[j].score = 0
                    ELSE items'[j].type = "apple" /\ items'[j].score = 100]_vars

\* C27 witness: a sixth bomb roll at the same level has just spawned an apple.
C27_Witness_SixthRollIsApple ==
    /\ bombsSpawnedInLevel = BombCap
    /\ level = LevelCap
    /\ itemIdCounter = BombCap + 1
    /\ \E j \in 1..Len(items) : items[j].id = BombCap /\ items[j].type = "apple"

\* C28: within a session baseSpeed never decreases and never exceeds 11, and
\* spawnRate never increases and never goes below 500.
C28_DifficultyOnlyIntensifies ==
    [][(sessions > 0 /\ sessions' = sessions) =>
          /\ baseSpeed' >= baseSpeed
          /\ baseSpeed' <= BossBaseSpeed
          /\ spawnRate' <= spawnRate
          /\ spawnRate' >= SpawnRateFloor]_vars

\* ------------------------------------------------------------------------
\* Specification SpecDrift: the boss moving to and fro over a whole boss phase
\* while it drops one rocket

MaxSpawnDrift == 1

NextDrift ==
    \/ Start(BossConfigs, OneSession)
    \/ Frame(BossRolls, MaxSpawnDrift, MaxSpawnDrift, NoFrameBudget)
    \/ BossStartTimeout

SpecDrift == InitWith({NoAI}) /\ [][NextDrift]_vars

\* C29: while the boss is there its x stays within [10, 90] (20..180 in half
\* percent) and its direction is -1 or +1.
C29_BossStaysInRange ==
    (isBossActive /\ bossEntity # NoBoss) =>
        /\ bossEntity.x >= BossMinX
        /\ bossEntity.x <= BossMaxX
        /\ bossEntity.direction \in {-1, 1}

\* ------------------------------------------------------------------------
\* Specification SpecInput: one session without an AI, started with the
\* keyboard enabled or disabled, receiving keys and pose labels

MaxSpawnInput == 1
MaxTimersInput == 1

InputConfigs == [startLevel : {LevelCap}, reward : {"gun"}, isInputEnabled : BOOLEAN]
InputRolls == [due : {TRUE}, lane : {1}, type : {0}, f : {0}, jitter : {0}]
PoseLabels == {"Left", "Center", "Right", "Up"}

NextInput ==
    \/ Start(InputConfigs, OneSession)
    \/ Frame(InputRolls, MaxSpawnInput, MaxSpawnInput, NoFrameBudget)
    \/ KeyDown({"a", "s", "d", "w"}, MaxTimersInput)
    \/ Pose(PoseLabels)
    \/ GunTimeout
    \/ BulletHit

SpecInput == InitWith({NoAI}) /\ [][NextInput]_vars

\* C30: in a session started with input disabled (and driven by no AI) neither
\* a key nor a pose label changes the player's lane or the gun state.
C30_DisabledInputIsIgnored ==
    [][(sessions > 0 /\ sessions' = sessions /\ ~isInputEnabled) =>
          /\ playerPos' = playerPos
          /\ hasGun' = hasGun
          /\ gunActive' = gunActive]_vars

\* ------------------------------------------------------------------------
\* Specification SpecLane: one session steered by keys (one of them unbound),
\* pose labels (one of them unknown) and an AI that errs (easy) or not (hell)

MaxSpawnLane == 1
MaxTimersLane == 1

LaneConfigs == [startLevel : {LevelCap}, reward : {"none"}, isInputEnabled : {TRUE}]
LaneRolls == [due : {TRUE}, lane : Lanes, type : {0}, f : {0}, jitter : {0}]
LaneKeys == {"a", "s", "d", "x"}
LaneErrRolls == {0, 50}

NextLane ==
    \/ Start(LaneConfigs, OneSession)
    \/ Frame(LaneRolls, MaxSpawnLane, MaxSpawnLane, NoFrameBudget)
    \/ KeyDown(LaneKeys, MaxTimersLane)
    \/ Pose(PoseLabels)
    \/ AIDecide(LaneErrRolls, MaxTimersLane)

SpecLane == InitWith({"easy", "hell"}) /\ [][NextLane]_vars

\* C31: the player's lane is always 0, 1 or 2, and an unbound key or an unknown
\* pose label would leave it as it is.
C31_LaneInRange ==
    /\ playerPos \in Lanes
    /\ onKeyDown(Cur, "x").playerPos = playerPos
    /\ onPoseDetected(Cur, "Up").playerPos = playerPos

\* the player stands in the right lane while an apple is falling in the left one
C31_Witness_MovedRight ==
    /\ isGameActive
    /\ difficulty = "easy"
    /\ playerPos = 2
    /\ \E i \in 1..Len(items) : items[i].lane = 0 /\ inWindow(items[i])

\* ------------------------------------------------------------------------
\* Specification SpecNoop: start() and stop() called at any time on sessions
\* whose apples fall past a player that never moves

MaxSpawnNoop == 2
MaxSessionsNoop == 2

NoopConfigs == [startLevel : {LevelCap}, reward : {"none", "gun"}, isInputEnabled : {TRUE}]
NoopRolls == [due : {TRUE}, lane : {0}, type : {0}, f : {0}, jitter : {0}]

NextNoop ==
    \/ StartCall(NoopConfigs, MaxSessionsNoop)
    \/ StopCall
    \/ Frame(NoopRolls, MaxSpawnNoop, MaxSpawnNoop, NoFrameBudget)

SpecNoop == InitWith({NoAI}) /\ [][NextNoop]_vars

\* C32: start() on an active session and stop() on an inactive one change no
\* field of the engine and report no end.
C32_InvalidCallsAreNoOps ==
    /\ isGameActive => \A config \in NoopConfigs : startCall(Cur, config) = Cur
    /\ ~isGameActive => stop(Cur, "Time's Up!", FALSE) = Cur

\* a session lost by misses on which stop() has then been called: the loss is
\* still its only reported end
C32_Witness_StopAfterLoss ==
    /\ ~isGameActive
    /\ sessions > 0
    /\ Len(gameEnds) = 1
    /\ gameEnds[1].reason # "Time's Up!"
    /\ log = <<>>

\* ------------------------------------------------------------------------
\* Specification SpecSurvivor: sessions of every difficulty started just below
\* the level up to which the AI is protected, and levelling up across it

MaxSpawnSurvivor == 1
MaxTimersSurvivor == 1
MaxGainSurvivor == 1000

SurvivorConfigs == [startLevel : {1, 4, 7, 11}, reward : {"none"}, isInputEnabled : {FALSE}]
SurvivorRolls == [due : {TRUE}, lane : {1}, type : {0}, f : {0}, jitter : {0}]
SurvivorErrRolls == {0, 50}
Difficulties == {"easy", "medium", "hard", "hell"}

NextSurvivor ==
    \/ Start(SurvivorConfigs, OneSession)
    \/ Frame(SurvivorRolls, MaxSpawnSurvivor, MaxSpawnSurvivor, NoFrameBudget)
    \/ AIDecide(SurvivorErrRolls, MaxTimersSurvivor)
    \/ AddScoreCall({PointsPerLevel}, MaxGainSurvivor)

SpecSurvivor == InitWith(Difficulties) /\ [][NextSurvivor]_vars

\* C33: a decision of the AI on an active session leaves isInvincible equal to
\* (level < 2, 5, 8, 12 for easy, medium, hard, hell); on an inactive session it
\* changes nothing.
C33_InvincibleBelowSurvivorLevel ==
    \A errRoll \in SurvivorErrRolls : \A randLane \in Lanes :
        LET after == decideMove(Cur, errRoll, randLane)
            threshold == CASE difficulty = "easy" -> 2
                           [] difficulty = "medium" -> 5
                           [] difficulty = "hard" -> 8
                           [] difficulty = "hell" -> 12
        IN  /\ isGameActive => (after.isInvincible <=> after.level < threshold)
            /\ ~isGameActive => after = Cur

\* a hell AI has decided at level 11, below its level 12
C33_Witness_ProtectedHell ==
    /\ isGameActive
    /\ difficulty = "hell"
    /\ level = 11
    /\ isInvincible

\* ------------------------------------------------------------------------
\* Specification SpecDecide: the first frames of sessions played by an AI, with
\* up to three items falling: a bomb in any lane, a dragon fruit on the right,
\* an apple (under the boss a rocket) in the centre.  The slow items of level 4,
\* where the medium AI is protected, take twelve frames to come into view; there
\* one item is followed.  A session started at level 15 runs its frames once the
\* boss has appeared

MaxSpawnDecide == 3
MaxFramesDecide == 8
MaxSpawnSlow == 1
MaxFramesSlow == 12
SlowLevel == 4
MaxTimersDecide == 1

DecideConfigs == [startLevel : {SlowLevel, LevelCap, BossLevel}, reward : {"none"}, isInputEnabled : {FALSE}]
DecideRolls ==
    {[due |-> TRUE, lane |-> r[1], type |-> r[2], f |-> 0, jitter |-> 0] :
        r \in {<<0, 95>>, <<1, 95>>, <<2, 95>>, <<2, 85>>, <<1, 0>>}}
DecideErrRolls == {0, 50}

NextDecide ==
    \/ Start(DecideConfigs, OneSession)
    \/ (level # SlowLevel /\ bossStartTimers = 0
           /\ Frame(DecideRolls, MaxSpawnDecide, MaxSpawnDecide, MaxFramesDecide))
    \/ (level = SlowLevel /\ Frame(DecideRolls, MaxSpawnSlow, MaxSpawnSlow, MaxFramesSlow))
    \/ AIDecide(DecideErrRolls, MaxTimersDecide)
    \/ BossStartTimeout

SpecDecide == InitWith({"medium", "hard"}) /\ [][NextDecide]_vars

\* the value of a lane: that of its item nearest to the player among those with
\* 0 < y < 420
LaneValue(lane) ==
    LET c == {i \in 1..Len(items) : items[i].lane = lane /\ items[i].y > 0 /\ items[i].y < 420}
    IN  IF c = {} THEN 0
        ELSE LET n == CHOOSE i \in c : \A j \in c : items[j].y <= items[i].y
             IN  CASE items[n].type = "bomb" -> -1000
                   [] items[n].type = "rocket" -> 500
                   [] items[n].type = "apple" -> 100
                   [] items[n].type = "banana" -> 200
                   [] items[n].type = "dragon" -> 300

BestLane == CHOOSE a \in Lanes :
                /\ \A b \in Lanes : LaneValue(b) <= LaneValue(a)
                /\ \A b \in Lanes : LaneValue(b) = LaneValue(a) => a <= b

\* C34: with an item in the window and no random error (error rate 0, or the
\* session invincible), a decision moves the player to the lowest lane of the
\* highest value, or leaves the lane alone if that value is at or below -500.
C34_MovesToBestLane ==
    (isGameActive /\ \E i \in 1..Len(items) : items[i].y > 0 /\ items[i].y < 420) =>
        \A errRoll \in DecideErrRolls : \A randLane \in Lanes :
            LET after == decideMove(Cur, errRoll, randLane)
            IN  (errorRate(difficulty) = 0 \/ after.isInvincible) =>
                    after.playerPos = (IF LaneValue(BestLane) <= -500 THEN playerPos
                                       ELSE BestLane)

\* a bomb in the left lane, a 300-point fruit in the right lane, the centre
\* empty, and the AI standing under the fruit
C34_Witness_FruitLaneChosen ==
    /\ isGameActive
    /\ difficulty = "hard"
    /\ LaneValue(0) = -1000
    /\ LaneValue(1) = 0
    /\ LaneValue(2) = 300
    /\ playerPos = 2


\* C35: with no item in the window a decision without random error moves the
\* player to lane 0, whatever the difficulty.
C35_EmptyWindowGoesLeft ==
    (isGameActive /\ ~\E i \in 1..Len(items) : items[i].y > 0 /\ items[i].y < 420) =>
        \A errRoll \in SurvivorErrRolls : \A randLane \in Lanes :
            LET after == decideMove(Cur, errRoll, randLane)
            IN  (errRoll >= errorRate(difficulty) \/ after.isInvincible) =>
                    after.playerPos = 0


\* ------------------------------------------------------------------------
\* Specification SpecAIGun: level 9 sessions with and without the gun reward,
\* played by an AI of any difficulty while apples and bombs fall

MaxSpawnAIGun == 2
MaxLiveAIGun == 1
MaxTimersAIGun == 2

AIGunConfigs == [startLevel : {LevelCap}, reward : {"none", "gun"}, isInputEnabled : {FALSE}]
AIGunRolls == [due : {TRUE}, lane : {0}, type : {0, 95}, f : {0}, jitter : {0}]
AIGunErrRolls == {0, 50}

NextAIGun ==
    \/ Start(AIGunConfigs, OneSession)
    \/ Frame(AIGunRolls, MaxSpawnAIGun, MaxLiveAIGun, NoFrameBudget)
    \/ AIDecide(AIGunErrRolls, MaxTimersAIGun)
    \/ GunTimeout
    \/ BulletHit

SpecAIGun == InitWith(Difficulties) /\ [][NextAIGun]_vars

\* C36: a decision of the AI changes the gun state (active flag, ownership,
\* timer) only on hard or hell, only with a bomb among the items with
\* 0 < y < 420, and only if the session owns the gun or has the dev override.
C36_AIGunOnlyWhenAllowed ==
    \A errRoll \in AIGunErrRolls : \A randLane \in Lanes :
        LET after == decideMove(Cur, errRoll, randLane)
        IN  (\/ after.gunActive # gunActive
             \/ after.hasGun # hasGun
             \/ after.gunTimer # gunTimer
             \/ after.gunTimeouts # gunTimeouts) =>
                /\ difficulty \in {"hard", "hell"}
                /\ \E i \in 1..Len(items) :
                      items[i].type = "bomb" /\ items[i].y > 0 /\ items[i].y < 420
                /\ (hasGun \/ devGunMode)

\* a hard AI has switched the gun on with a bomb in view
C36_Witness_AIFired ==
    /\ isGameActive
    /\ difficulty = "hard"
    /\ gunActive
    /\ \E i \in 1..Len(items) : items[i].type = "bomb" /\ inWindow(items[i])


\* ------------------------------------------------------------------------
\* Specification SpecThirds: sessions started at level 15 in which items of
\* every kind are spawned before the boss appears and while it crosses the
\* three thirds of the field

MaxSpawnThirds == 2
MaxLiveThirds == 1

ThirdsRolls == [due : {TRUE}, lane : Lanes, type : {0, 55, 95}, f : {0}, jitter : {0}]

NextThirds ==
    \/ Start(BossConfigs, OneSession)
    \/ Frame(ThirdsRolls, MaxSpawnThirds, MaxLiveThirds, NoFrameBudget)
    \/ BossStartTimeout

SpecThirds == InitWith({NoAI}) /\ [][NextThirds]_vars

\* C37: an item spawned while the boss is active gets the lane of the third the
\* boss is in after its move of that frame (below 33 left, below 66 centre, else
\* right; the model counts half percents), and an item spawned while the boss
\* is not active is never a rocket.
C37_SpawnsUnderBoss ==
    [][itemIdCounter' = itemIdCounter + 1 =>
          \E j \in 1..Len(items') :
              /\ items'[j].id = itemIdCounter
              /\ isBossActive =>
                    items'[j].lane = (IF bossEntity'.x < 2 * 33 THEN 0
                                      ELSE IF bossEntity'.x < 2 * 66 THEN 1 ELSE 2)
              /\ items'[j].type = "rocket" => isBossActive]_vars

\* a rocket dropped by the boss in the left third
C37_Witness_RocketOnTheLeft ==
    /\ isBossActive
    /\ \E i \in 1..Len(items) : items[i].type = "rocket" /\ items[i].lane = 0


\* ------------------------------------------------------------------------
\* Specification SpecLadder: sessions started at any level from 1 to 14 and
\* levelled up, a thousand points at a time, by calls of addScore

MaxGainLadder == 13000
LadderTop == 14

LadderConfigs == [startLevel : 1..LadderTop, reward : Rewards, isInputEnabled : {TRUE}]

NextLadder ==
    \/ Start(LadderConfigs, OneSession)
    \/ AddScoreCall({PointsPerLevel}, MaxGainLadder)

SpecLadder == InitWith({NoAI}) /\ [][NextLadder]_vars

\* C38: a session that was started (at level 1, or at any level) and has been
\* levelled up to a level k <= 14 by calls of addScore(1000) has the score,
\* level, baseSpeed, spawnRate, bombsSpawnedInLevel and timeLimit of a session
\* started at k, with baseSpeed = 3 + (min(k, 9) - 1) and
\* spawnRate = 1500 - 100 * (min(k, 9) - 1).
C38_StartEqualsLevellingUp ==
    (isGameActive /\ level <= 14) =>
        LET started == start(Cur, [startConfig EXCEPT !.startLevel = level])
            m == IF level < 9 THEN level ELSE 9
        IN  /\ score = started.score
            /\ level = started.level
            /\ baseSpeed = started.baseSpeed
            /\ spawnRate = started.spawnRate
            /\ bombsSpawnedInLevel = started.bombsSpawnedInLevel
            /\ timeLimit = started.timeLimit
            /\ baseSpeed = 3 + (m - 1)
            /\ spawnRate = 1500 - 100 * (m - 1)

\* a session started at level 1 and taken to level 14 by thirteen calls
C38_Witness_ClimbedToFourteen ==
    /\ isGameActive
    /\ startConfig.startLevel = 1
    /\ level = 14
    /\ score = 13000


\* C39: within a frame, once a resolution has ended the session no further item
\* is resolved against the player: every catch or hit of the frame was made on
\* a session still active, so nothing is scored after the end was reported.
C39_NothingResolvedAfterTheEnd ==
    \A k \in 1..Len(log) : log[k].via = "player" => log[k].wasActive


\* ------------------------------------------------------------------------
\* Specification SpecLive: the countdown of sessions started at levels 13 to
\* 15, fired fairly, against level-ups by addScore and the deferred start of the
\* boss.  A session below the boss phase sees fewer than 120 ticks: at most 59
\* at level 13, at most 59 at level 14, and the 60th of a level ends it

MaxTicksLive == 120
MaxGainLive == 2000

NextLive ==
    \/ Start(ClockConfigs, OneSession)
    \/ Tick1Hz(MaxTicksLive)
    \/ AddScoreCall({PointsPerLevel}, MaxGainLive)
    \/ BossStartTimeout

SpecLive ==
    /\ InitWith({NoAI})
    /\ [][NextLive]_vars
    /\ WF_vars(Tick1Hz(MaxTicksLive))

\* C40: with the 1 Hz countdown firing fairly, an active session that is not in
\* the boss phase eventually ends or enters the boss phase.
C40_EndsOrMeetsBoss ==
    (isGameActive /\ ~isBossActive) ~> (~isGameActive \/ isBossActive)

\* a session started at level 13 that levelled up once, which reset the
\* countdown, and was then ended by it
C40_Witness_TimeOverAfterReset ==
    /\ ~isGameActive
    /\ startConfig.startLevel = 13
    /\ level = 14
    /\ ticks > TimeLimitStart
    /\ gameEnds = <<[reason |-> "Time Over!", isVictory |-> FALSE]>>

====
